---- MODULE Spec2Model ----
(***************************************************************************)
(* The no-bare-strings rule of ember-template-lint                         *)
(* (src/lib/rules/no-bare-strings.js): configuration normalisation, the    *)
(* allowlist matcher, the visitor callbacks driven by the host's           *)
(* depth-first traversal, and the report / fix paths with the translation  *)
(* catalog on disk.                                                        *)
(*                                                                         *)
(* A JavaScript string is a sequence of one-character strings, so that     *)
(* includes / replace / trim / split / join act on characters.  Any other  *)
(* JavaScript value is a record [t |-> kind, v |-> payload].  Tag names    *)
(* and attribute names are only ever compared for equality by the rule and *)
(* are kept as atoms.                                                      *)
(***************************************************************************)
EXTENDS Naturals, Sequences, FiniteSets

VARIABLES
    pc,                  \* which operation of the rule runs next
    rawConfig,           \* the configuration value handed to parseConfig
    config,              \* this.config: what parseConfig returned
    thrown,              \* the exception that escaped the rule, if any
    input,               \* the string handed to _getBareString
    output,              \* what _getBareString returned
    mode,                \* this.mode: "report" or "fix"
    filePath,            \* this._filePath
    file,                \* translations/en.json on disk
    _elementStack,       \* this._elementStack (tags, outermost first)
    _currentElementNode, \* this._currentElementNode (its tag)
    attrsOpen,           \* host: the innermost open element has had no child yet
    visit,               \* host: the node whose callbacks are running or ran last
    logged,              \* diagnostics handed to this.log during the current visit
    calls,               \* the _getBareString / _fixOrLog calls of the last callback
    runs,                \* concurrent fix-mode runs inside _addStringToTranslations
    strip                \* _getBareString run step by step: its loop position

vars == <<pc, rawConfig, config, thrown, input, output, mode, filePath, file,
          _elementStack, _currentElementNode, attrsOpen, visit, logged, calls,
          runs, strip>>

-----------------------------------------------------------------------------
(* Bounds of the model                                                     *)

MaxEntries == 2     \* entries in a configured allowlist
MaxEntryLen == 2    \* characters in a configured allowlist entry
MaxStrLen == 3      \* characters in a string handed to the matcher
MaxDepth == 2       \* open elements
MaxParts == 3       \* parts of a concatenated attribute value

-----------------------------------------------------------------------------
(* JavaScript values                                                       *)

Prim(t) == [t |-> t, v |-> <<>>]

Str(s) == [t |-> "string", v |-> s]

Arr(s) == [t |-> "array", v |-> s]

Obj(m) == [t |-> "object", v |-> m]

Undefined == Prim("undefined")

Null == Prim("null")

TypeOf(x) ==
    CASE x.t \in {"true", "false"} -> "boolean"
      [] x.t \in {"null", "array", "object"} -> "object"
      [] x.t \in {"zero", "number"} -> "number"
      [] OTHER -> x.t

IsArray(x) == x.t = "array"

Truthy(x) ==
    CASE x.t \in {"false", "null", "undefined", "zero"} -> FALSE
      [] x.t = "string" -> x.v # <<>>
      [] OTHER -> TRUE

Elems(s) == {s[i] : i \in 1..Len(s)}

EmptyMap == [k \in {} |-> <<>>]

-----------------------------------------------------------------------------
(* Module constants of the rule                                            *)

GLOBAL_ATTRIBUTES ==
    <<"title", "aria-label", "aria-placeholder", "aria-roledescription",
      "aria-valuetext">>

TAG_ATTRIBUTES ==
    [tag \in {"input", "img"} |->
        IF tag = "input" THEN <<"placeholder">> ELSE <<"alt">>]

DEFAULT_ALLOWLIST == <<
    <<"&", "l", "p", "a", "r", ";">>,
    <<"&", "r", "p", "a", "r", ";">>,
    <<"&", "c", "o", "m", "m", "a", ";">>,
    <<"&", "p", "e", "r", "i", "o", "d", ";">>,
    <<"&", "a", "m", "p", ";">>,
    <<"&", "A", "M", "P", ";">>,
    <<"&", "p", "l", "u", "s", ";">>,
    <<"&", "m", "i", "n", "u", "s", ";">>,
    <<"&", "e", "q", "u", "a", "l", "s", ";">>,
    <<"&", "a", "s", "t", ";">>,
    <<"&", "m", "i", "d", "a", "s", "t", ";">>,
    <<"&", "s", "o", "l", ";">>,
    <<"&", "n", "u", "m", ";">>,
    <<"&", "p", "e", "r", "c", "n", "t", ";">>,
    <<"&", "e", "x", "c", "l", ";">>,
    <<"&", "q", "u", "e", "s", "t", ";">>,
    <<"&", "c", "o", "l", "o", "n", ";">>,
    <<"&", "l", "s", "q", "b", ";">>,
    <<"&", "l", "b", "r", "a", "c", "k", ";">>,
    <<"&", "r", "s", "q", "b", ";">>,
    <<"&", "r", "b", "r", "a", "c", "k", ";">>,
    <<"&", "l", "c", "u", "b", ";">>,
    <<"&", "l", "b", "r", "a", "c", "e", ";">>,
    <<"&", "r", "c", "u", "b", ";">>,
    <<"&", "r", "b", "r", "a", "c", "e", ";">>,
    <<"&", "l", "t", ";">>,
    <<"&", "L", "T", ";">>,
    <<"&", "g", "t", ";">>,
    <<"&", "G", "T", ";">>,
    <<"&", "b", "u", "l", "l", ";">>,
    <<"&", "b", "u", "l", "l", "e", "t", ";">>,
    <<"&", "m", "d", "a", "s", "h", ";">>,
    <<"&", "n", "d", "a", "s", "h", ";">>,
    <<"&", "n", "b", "s", "p", ";">>,
    <<"&", "T", "a", "b", ";">>,
    <<"&", "N", "e", "w", "L", "i", "n", "e", ";">>,
    <<"&", "v", "e", "r", "b", "a", "r", ";">>,
    <<"&", "v", "e", "r", "t", ";">>,
    <<"&", "V", "e", "r", "t", "i", "c", "a", "l", "L", "i", "n", "e", ";">>,
    <<"(">>,
    <<")">>,
    <<",">>,
    <<".">>,
    <<"&">>,
    <<"+">>,
    <<"-">>,
    <<"=">>,
    <<"*">>,
    <<"/">>,
    <<"#">>,
    <<"%">>,
    <<"!">>,
    <<"?">>,
    <<":">>,
    <<"[">>,
    <<"]">>,
    <<"{">>,
    <<"}">>,
    <<"<">>,
    <<">">>,
    <<"U+2022">>,
    <<"U+2014">>,
    <<" ">>,
    <<"|">>
>>

IGNORED_ELEMENTS == {"pre", "script", "style", "template", "textarea"}

DEFAULT_CONFIG ==
    [allowlist |-> Arr(DEFAULT_ALLOWLIST),
     whitelist |-> Arr(DEFAULT_ALLOWLIST),
     globalAttributes |-> Arr(GLOBAL_ATTRIBUTES),
     elementAttributes |-> Obj(TAG_ATTRIBUTES)]

\* Names every object inherits from Object.prototype: DEFAULT_CONFIG[key]
\* finds them although DEFAULT_CONFIG does not define them.
ObjectPrototypeKeys == {"constructor", "toString"}

-----------------------------------------------------------------------------
(* Config Normalizer                                                       *)

\* config[key] for the keys the object has, undefined otherwise.
Get(conf, key) ==
    IF conf.t = "object" /\ key \in DOMAIN conf.v THEN conf.v[key]
    ELSE Undefined

\* One iteration of the for-in loop: TRUE when this key makes the function
\* return false.
RejectsKey(key, value) ==
    IF key \in {"allowlist", "whitelist"} /\ ~IsArray(value) THEN TRUE
    ELSE IF key = "globalAttributes" /\ ~IsArray(value) THEN TRUE
    ELSE IF key = "elementAttributes" /\ TypeOf(value) = "object"
         THEN IsArray(value)
    ELSE ~(key \in DOMAIN DEFAULT_CONFIG \/ key \in ObjectPrototypeKeys)

\* for (let key in config): no iteration for null.
isValidConfigObjectFormat(conf) ==
    LET keys == IF conf.t = "object" THEN DOMAIN conf.v ELSE {}
    IN  \A key \in keys : ~RejectsKey(key, conf.v[key])

\* Mutant of InsertByLength: an unstable sort, x goes before the entries
\* of its own length.
InsertByLength_Unstable(sorted, x) ==
    LET k == Cardinality({i \in 1..Len(sorted) : Len(sorted[i]) > Len(x)})
    IN  SubSeq(sorted, 1, k) \o <<x>> \o SubSeq(sorted, k + 1, Len(sorted))

\* Array.prototype.sort is stable: x goes behind every entry that is at
\* least as long.
InsertByLength(sorted, x) ==
    LET k == Cardinality({i \in 1..Len(sorted) : Len(sorted[i]) >= Len(x)})
    IN  SubSeq(sorted, 1, k) \o <<x>> \o SubSeq(sorted, k + 1, Len(sorted))

RECURSIVE SortByLengthDesc(_)
SortByLengthDesc(s) ==
    IF s = <<>> THEN <<>>
    ELSE InsertByLength(SortByLengthDesc(SubSeq(s, 1, Len(s) - 1)), s[Len(s)])

\* Mutant of sanitizeConfigArray: the empty strings are kept.
sanitizeConfigArray_KeepEmpty(allowlist) == SortByLengthDesc(allowlist)

sanitizeConfigArray(allowlist) ==
    SortByLengthDesc(SelectSeq(allowlist, LAMBDA option : option # <<>>))

NoError == [type |-> "none", lines |-> <<>>]

\* new Error(createErrorMessage(ruleName, [...], config)).  A TLA+ string
\* cannot hold a backquote: the source's backquotes are written ' here.
ConfigurationError ==
    [type |-> "Error",
     lines |-> <<"  * boolean - 'true' to enable / 'false' to disable",
                 "  * array -- an array of allowlisted strings",
                 "  * object -- An object with the following keys:",
                 "    * 'allowlist' -- An array of allowlisted strings",
                 "    * 'globalAttributes' -- An array of attributes to check on every element",
                 "    * 'elementAttributes' -- An object whose keys are tag names and value is an array of attributes to check for that tag name">>]

\* Destructuring null or undefined.
TypeError == [type |-> "TypeError", lines |-> <<>>]

Return(value) == [ret |-> value, thrown |-> NoError]

Throw(error) == [ret |-> Undefined, thrown |-> error]

\* Mutant of AllowlistToUse: the whitelist is looked at first.
AllowlistToUse_WhitelistFirst(conf) ==
    LET allowlist == IF Get(conf, "allowlist") = Undefined THEN Arr(<<>>)
                     ELSE Get(conf, "allowlist")
        whitelist == IF Get(conf, "whitelist") = Undefined THEN Arr(<<>>)
                     ELSE Get(conf, "whitelist")
    IN  IF IsArray(whitelist) /\ Len(whitelist.v) > 0 THEN whitelist.v
        ELSE IF IsArray(allowlist) /\ Len(allowlist.v) > 0 THEN allowlist.v
        ELSE <<>>

\* [allowlist, whitelist].find(list => Array.isArray(list) && list.length) || []
AllowlistToUse(conf) ==
    LET allowlist == IF Get(conf, "allowlist") = Undefined THEN Arr(<<>>)
                     ELSE Get(conf, "allowlist")
        whitelist == IF Get(conf, "whitelist") = Undefined THEN Arr(<<>>)
                     ELSE Get(conf, "whitelist")
    IN  IF IsArray(allowlist) /\ Len(allowlist.v) > 0 THEN allowlist.v
        ELSE IF IsArray(whitelist) /\ Len(whitelist.v) > 0 THEN whitelist.v
        ELSE <<>>

parseConfig(conf) ==
    CASE TypeOf(conf) = "boolean" ->
            IF conf.t = "true" THEN Return(Obj(DEFAULT_CONFIG))
            ELSE Return(Prim("false"))
      [] TypeOf(conf) = "object" ->
            IF IsArray(conf)
            THEN Return(Obj([allowlist |-> Arr(sanitizeConfigArray(conf.v)),
                             globalAttributes |-> Arr(GLOBAL_ATTRIBUTES),
                             elementAttributes |-> Obj(TAG_ATTRIBUTES)]))
            ELSE IF isValidConfigObjectFormat(conf)
            THEN IF conf.t = "null" THEN Throw(TypeError)
                 ELSE Return(Obj(
                     [allowlist |-> Arr(sanitizeConfigArray(AllowlistToUse(conf))),
                      globalAttributes |->
                          IF Truthy(Get(conf, "globalAttributes"))
                          THEN Get(conf, "globalAttributes") ELSE Arr(<<>>),
                      elementAttributes |->
                          IF Truthy(Get(conf, "elementAttributes"))
                          THEN Get(conf, "elementAttributes") ELSE Obj(EmptyMap)]))
            ELSE Throw(ConfigurationError)
      [] TypeOf(conf) = "undefined" -> Return(Prim("false"))
      [] OTHER -> Throw(ConfigurationError)

-----------------------------------------------------------------------------
(* Allowlist Matcher                                                       *)

WhiteSpace == {" ", "\t", "\n"}

includes(string, entry) ==
    \E i \in 1..(Len(string) + 1 - Len(entry)) :
        SubSeq(string, i, i + Len(entry) - 1) = entry

\* string.replace(entry, ''): the first occurrence only.
replace(string, entry) ==
    LET i == CHOOSE j \in 1..(Len(string) + 1 - Len(entry)) :
                 /\ SubSeq(string, j, j + Len(entry) - 1) = entry
                 /\ \A k \in 1..(j - 1) :
                        SubSeq(string, k, k + Len(entry) - 1) # entry
    IN  SubSeq(string, 1, i - 1) \o SubSeq(string, i + Len(entry), Len(string))

\* Mutant of StripEntry: an if in place of the while.
StripEntry_Once(string, entry) ==
    IF includes(string, entry) THEN replace(string, entry) ELSE string

\* while (string.includes(entry)) string = string.replace(entry, '')
RECURSIVE StripEntry(_, _)
StripEntry(string, entry) ==
    IF includes(string, entry) THEN StripEntry(replace(string, entry), entry)
    ELSE string

\* for (const entry of allowlist) ...: the string after the entries lo..hi
\* were stripped from it in that order.  The range is halved, and the first
\* half's result is computed (its length taken) before the second half
\* starts, only to keep TLC's evaluation shallow for 64 entries.
RECURSIVE StripRange(_, _, _, _)
StripRange(string, allowlist, lo, hi) ==
    IF lo > hi THEN string
    ELSE IF lo = hi THEN StripEntry(string, allowlist[lo])
    ELSE LET mid == (lo + hi) \div 2
             left == StripRange(string, allowlist, lo, mid)
         IN  IF Len(left) >= 0 THEN StripRange(left, allowlist, mid + 1, hi)
             ELSE left

StripAll(string, allowlist) == StripRange(string, allowlist, 1, Len(allowlist))

RECURSIVE trim(_)
trim(string) ==
    IF string = <<>> THEN string
    ELSE IF string[1] \in WhiteSpace THEN trim(SubSeq(string, 2, Len(string)))
    ELSE IF string[Len(string)] \in WhiteSpace
         THEN trim(SubSeq(string, 1, Len(string) - 1))
    ELSE string

_getBareString(_string) ==
    LET allowlist == config.v.allowlist
        string == IF Truthy(allowlist) THEN StripAll(_string, allowlist.v)
                  ELSE _string
    IN  IF trim(string) # <<>> THEN Str(_string) ELSE Null

-----------------------------------------------------------------------------
(* Translation Catalog Writer                                              *)

\* translations/en.json: absent, or present with the permissions of the
\* process and the value its text parses to (Prim("invalid") when it is not
\* JSON).  JSON.stringify followed by JSON.parse returns the value written.
IsObject(x) == x.t = "object"

\* string.split(sep): the pieces between the separators.
RECURSIVE split(_, _)
split(string, sep) ==
    IF \E i \in 1..Len(string) : string[i] = sep
    THEN LET i == CHOOSE j \in 1..Len(string) :
                      string[j] = sep /\ \A k \in 1..(j - 1) : string[k] # sep
         IN  <<SubSeq(string, 1, i - 1)>> \o split(SubSeq(string, i + 1, Len(string)), sep)
    ELSE <<string>>

\* segments.join(sep)
RECURSIVE join(_, _)
join(segments, sep) ==
    IF segments = <<>> THEN <<>>
    ELSE IF Len(segments) = 1 THEN segments[1]
    ELSE segments[1] \o <<sep>> \o join(SubSeq(segments, 2, Len(segments)), sep)

\* Mutant of KeyPathSegments: the root segment is kept (no shift()).
KeyPathSegments_NoShift ==
    LET segments == split(filePath, "/")
    IN  SubSeq(segments, 1, Len(segments) - 1)

\* keyPathSegments after split, pop() and shift().
KeyPathSegments ==
    LET segments == split(filePath, "/")
        popped == SubSeq(segments, 1, Len(segments) - 1)
    IN  SubSeq(popped, 2, Len(popped))

\* The reduce over keyPathSegments followed by parent[string] = string, on
\* the parsed value acc.  ok is FALSE when a TypeError is thrown: a property
\* read on null, or (strict mode) a property write on a primitive.
RECURSIVE Insert(_, _, _)
Insert(acc, segments, string) ==
    IF ~IsObject(acc) THEN [ok |-> FALSE, value |-> acc]
    ELSE IF segments = <<>>
    THEN [ok |-> TRUE,
          value |-> Obj([k \in DOMAIN acc.v \cup {string} |->
                            IF k = string THEN Str(string) ELSE acc.v[k]])]
    ELSE LET currentValue == segments[1]
             child == IF currentValue \in DOMAIN acc.v /\ Truthy(acc.v[currentValue])
                      THEN acc.v[currentValue] ELSE Obj(EmptyMap)
             r == Insert(child, SubSeq(segments, 2, Len(segments)), string)
         IN  [ok |-> r.ok,
              value |-> Obj([k \in DOMAIN acc.v \cup {currentValue} |->
                                IF k = currentValue THEN r.value ELSE acc.v[k]])]

\* The body of the try block: what it returns or that it threw, and the
\* file it leaves.
TryAddString(f, string) ==
    IF ~f.readable \/ f.content = Prim("invalid")
    THEN [threw |-> TRUE, key |-> Undefined, file |-> f]
    ELSE LET r == Insert(f.content, KeyPathSegments, string)
         IN  IF ~r.ok \/ ~f.writable
             THEN [threw |-> TRUE, key |-> Undefined, file |-> f]
             ELSE [threw |-> FALSE,
                   key |-> Str(join(KeyPathSegments \o <<string>>, ".")),
                   file |-> [f EXCEPT !.content = r.value]]

\* Mutant of _addStringToTranslations: no catch around the read and parse.
_addStringToTranslations_Uncaught(f, string) ==
    IF f.exists
    THEN LET r == TryAddString(f, string)
         IN  IF r.threw THEN [key |-> Undefined, file |-> r.file, thrown |-> TypeError]
             ELSE [key |-> r.key, file |-> r.file, thrown |-> NoError]
    ELSE [key |-> Undefined, file |-> f, thrown |-> NoError]

\* What the call returns, the file afterwards, and the exception that
\* escapes it.
_addStringToTranslations(f, string) ==
    IF f.exists
    THEN LET r == TryAddString(f, string)
         IN  IF r.threw THEN [key |-> Null, file |-> r.file, thrown |-> NoError]
             ELSE [key |-> r.key, file |-> r.file, thrown |-> NoError]
    ELSE [key |-> Undefined, file |-> f, thrown |-> NoError]

-----------------------------------------------------------------------------
(* Tree Walker and Reporter / Fixer                                        *)
(*                                                                         *)
(* A callback works on st: the visited subtree (its kind, attribute name,   *)
(* location and parts), the diagnostics logged, the catalog file, the      *)
(* exception that escaped, the number of _getBareString calls and the      *)
(* record of the _fixOrLog calls.                                          *)

\* Mutant of isWithinIgnoredElement: only the innermost open element counts.
isWithinIgnoredElement_Innermost ==
    /\ _elementStack # <<>>
    /\ _elementStack[Len(_elementStack)].tag \in IGNORED_ELEMENTS

isWithinIgnoredElement ==
    \E n \in 1..Len(_elementStack) : _elementStack[n].tag \in IGNORED_ELEMENTS

\* A TLA+ string cannot hold a backquote: ' stands for it.
AdditionalDescription(attributeType) == <<" in '", attributeType, "' attribute">>

\* The message is the concatenation of these pieces.
Message(additionalDescription) == <<"Non-translated string used">> \o additionalDescription

\* Mutant of _log: the trimmed text as source.
_log_Trimmed(st, additionalDescription, loc, bareStringText) ==
    [st EXCEPT !.logged =
        Append(@, [message |-> Message(additionalDescription),
                   isFixable |-> TRUE,
                   line |-> loc.start.line,
                   column |-> loc.start.column,
                   source |-> trim(bareStringText)])]

_log(st, additionalDescription, loc, bareStringText) ==
    [st EXCEPT !.logged =
        Append(@, [message |-> Message(additionalDescription),
                   isFixable |-> TRUE,
                   line |-> loc.start.line,
                   column |-> loc.start.column,
                   source |-> bareStringText])]

\* `{{t '${key}'}}`
Helper(key) == <<"{", "{", "t", " ", "'">> \o key \o <<"'", "}", "}">>

\* node is the part inspected, path.node the part the host is visiting.
_fix(st, node, pathNode, bareStringText) ==
    IF st.parts[node].type = "TextNode"
    THEN LET trimmed == trim(bareStringText)
             r == _addStringToTranslations(st.file, trimmed)
             rewrite == r.thrown = NoError /\ Truthy(r.key)
         IN  [st EXCEPT
                 !.file = r.file,
                 !.thrown = r.thrown,
                 !.parts[pathNode].chars = IF rewrite THEN Helper(r.key.v) ELSE @,
                 !.fixOrLog = Append(@, [node |-> node, type |-> "TextNode",
                                           source |-> bareStringText,
                                           key |-> r.key, rewritten |-> rewrite])]
    ELSE [st EXCEPT
             !.fixOrLog = Append(@, [node |-> node, type |-> st.parts[node].type,
                                       source |-> bareStringText,
                                       key |-> Undefined, rewritten |-> FALSE])]

_fixOrLog(st, node, additionalDescription, loc, bareStringText, pathNode) ==
    IF mode = "fix" THEN _fix(st, node, pathNode, bareStringText)
    ELSE _log([st EXCEPT !.fixOrLog =
                   Append(@, [node |-> node, type |-> st.parts[node].type,
                              source |-> bareStringText,
                              key |-> Undefined, rewritten |-> FALSE])],
              additionalDescription, loc, bareStringText)

\* The TextNode and StringLiteral branches of _inspectNode, on part node.
InspectLiteral(st, node, additionalDescription, loc, pathNode) ==
    LET bareStringText == _getBareString(st.parts[node].chars)
        inspected == [st EXCEPT !.inspected = @ + 1]
    IN  IF Truthy(bareStringText)
        THEN _fixOrLog(inspected, node, additionalDescription, loc,
                       bareStringText.v, pathNode)
        ELSE inspected

\* _inspectNode on part node: the recursive call of the ConcatStatement
\* branch, and the direct call on a node that is no ConcatStatement.
InspectPart(st, node, additionalDescription, loc, pathNode) ==
    IF st.thrown # NoError THEN st
    ELSE IF Truthy(_currentElementNode) /\ isWithinIgnoredElement THEN st
    ELSE IF st.parts[node].type \in {"TextNode", "StringLiteral"}
    THEN InspectLiteral(st, node, additionalDescription, loc, pathNode)
    ELSE st

\* for (let i = 0; i < node.parts.length; i++): the parts from the i-th on.
RECURSIVE InspectPartsFrom(_, _, _, _, _)
InspectPartsFrom(st, i, additionalDescription, loc, pathNode) ==
    IF i > Len(st.parts) THEN st
    ELSE InspectPartsFrom(InspectPart(st, i, additionalDescription, loc, pathNode),
                          i + 1, additionalDescription, loc, pathNode)

\* node = 0 is the ConcatStatement made of all the parts, node > 0 one part.
_inspectNode(st, node, additionalDescription, loc, pathNode) ==
    IF Truthy(_currentElementNode) /\ isWithinIgnoredElement THEN st
    ELSE IF node = 0
    THEN InspectPartsFrom(st, 1, additionalDescription, loc, pathNode)
    ELSE InspectPart(st, node, additionalDescription, loc, pathNode)

\* Mutant of _getBareStringAttribute: an attribute listed for any tag counts.
_getBareStringAttribute_AnyTag(st, pathNode) ==
    LET attributeType == st.name
        elementAttributes == config.v.elementAttributes
    IN  IF \/ attributeType \in Elems(config.v.globalAttributes.v)
           \/ \E tag \in DOMAIN elementAttributes.v :
                  attributeType \in Elems(elementAttributes.v[tag])
        THEN _inspectNode(st, IF st.concat THEN 0 ELSE 1,
                          AdditionalDescription(attributeType), st.loc, pathNode)
        ELSE st

\* attribute is the visited AttrNode, whose value is all of st.parts
\* (a ConcatStatement) or its only part.
_getBareStringAttribute(st, pathNode) ==
    LET tag == _currentElementNode.tag
        attributeType == st.name
        attributeValueNode == IF st.concat THEN 0 ELSE 1
        additionalDescription == AdditionalDescription(attributeType)
        isGlobalAttribute == attributeType \in Elems(config.v.globalAttributes.v)
        elementAttributes == config.v.elementAttributes
        isElementAttribute ==
            /\ IsObject(elementAttributes)
            /\ tag \in DOMAIN elementAttributes.v
            /\ attributeType \in Elems(elementAttributes.v[tag])
    IN  IF isGlobalAttribute \/ isElementAttribute
        THEN _inspectNode(st, attributeValueNode, additionalDescription,
                          st.loc, pathNode)
        ELSE st

\* visitor().TextNode on part pathNode of the st.
TextNode(st, pathNode) ==
    IF ~Truthy(st.parts[pathNode].loc) THEN st
    ELSE IF st.kind = "AttrNode" THEN _getBareStringAttribute(st, pathNode)
    ELSE _inspectNode(st, pathNode, <<>>, st.parts[pathNode].loc, pathNode)

\* Mutant of MustacheStatement: the test for an attribute ancestor inverted.
MustacheStatement_OnlyInAttribute(st, pathNode) ==
    IF st.kind = "AttrNode" THEN _inspectNode(st, 1, <<>>, st.loc, pathNode)
    ELSE st

\* visitor().MustacheStatement: node.path is the only part of a top-level
\* mustache visit; inside an attribute nothing is inspected.
MustacheStatement(st, pathNode) ==
    IF st.kind # "AttrNode" THEN _inspectNode(st, 1, <<>>, st.loc, pathNode)
    ELSE st

-----------------------------------------------------------------------------
(* Inputs of the model                                                     *)

RECURSIVE SeqsUpTo(_, _)
SeqsUpTo(S, n) ==
    IF n = 0 THEN {<<>>}
    ELSE LET shorter == SeqsUpTo(S, n - 1)
         IN  shorter \cup {Append(q, x) : q \in {r \in shorter : Len(r) = n - 1}, x \in S}

\* Characters of matcher inputs; "b" is never part of a configured entry.
Alphabet == {"a", "b", " "}

EntryAlphabet == {"a", " "}

Entries == SeqsUpTo(EntryAlphabet, MaxEntryLen)

RawLists == SeqsUpTo(Entries, MaxEntries)

Strings == SeqsUpTo(Alphabet, MaxStrLen)

\* Allowlists of object configurations: up to two entries.
ObjLists == SeqsUpTo({<<>>, <<"a">>, <<"a", "b">>}, 2)

WrongTyped == {Str(<<"x">>), Null, Prim("number")}

KeyValues(key) ==
    CASE key \in {"allowlist", "whitelist"} ->
            {Arr(l) : l \in ObjLists} \cup {Str(<<"x">>), Null}
      [] key = "globalAttributes" ->
            {Arr(<<>>), Arr(<<"data-foo">>), Str(<<"x">>), Null}
      [] key = "elementAttributes" ->
            {Obj(EmptyMap), Obj([tag \in {"div"} |-> <<"data-foo">>]),
             Arr(<<"alt">>)} \cup WrongTyped
      [] OTHER -> {Prim("true")}

Absent == Prim("absent")

Opt(key) == KeyValues(key) \cup {Absent}

\* The object that has exactly the keys given a value.
ObjectWith(a, w, g, e, f, c) ==
    LET value(key) ==
            CASE key = "allowlist" -> a
              [] key = "whitelist" -> w
              [] key = "globalAttributes" -> g
              [] key = "elementAttributes" -> e
              [] key = "foo" -> f
              [] key = "constructor" -> c
        ConfigKeys == {"allowlist", "whitelist", "globalAttributes",
                       "elementAttributes", "foo", "constructor"}
    IN  Obj([key \in {k \in ConfigKeys : value(k) # Absent} |-> value(key)])

ObjectConfigs ==
    {ObjectWith(a, w, g, e, f, c) :
        a \in Opt("allowlist"), w \in Opt("whitelist"),
        g \in Opt("globalAttributes"), e \in Opt("elementAttributes"),
        f \in Opt("foo"), c \in Opt("constructor")}

ConfigValues ==
    {Prim("true"), Prim("false"), Undefined, Null, Prim("zero"), Prim("number"),
     Str(<<>>), Str(<<"x">>), Prim("function")}
    \cup {Arr(l) : l \in RawLists}
    \cup ObjectConfigs

-----------------------------------------------------------------------------
(* The rule before a traversal: nothing visited, nothing logged             *)

NoVisit ==
    [kind |-> "none", name |-> "", loc |-> Undefined, concat |-> FALSE,
     parts |-> <<>>, orig |-> <<>>, idx |-> 0]

NoCalls == [inspected |-> 0, fixOrLog |-> <<>>]

NoFile == [exists |-> FALSE, readable |-> FALSE, writable |-> FALSE, content |-> Undefined]

\* No run is inside _addStringToTranslations.
NoRuns == <<>>

\* _getBareString is not being stepped through.
NoStrip == [entry |-> 0, string |-> <<>>]

Untraversed ==
    /\ mode = "report"
    /\ filePath = <<>>
    /\ file = NoFile
    /\ _elementStack = <<>>
    /\ _currentElementNode = Undefined
    /\ attrsOpen = FALSE
    /\ visit = NoVisit
    /\ logged = <<>>
    /\ calls = NoCalls
    /\ runs = NoRuns
    /\ strip = NoStrip

traversalVars ==
    <<mode, filePath, file, _elementStack, _currentElementNode, attrsOpen,
      visit, logged, calls, runs, strip>>

-----------------------------------------------------------------------------
(* Specification SpecConfig: parseConfig on every configuration value      *)

InitConfig ==
    /\ pc = "parseConfig"
    /\ rawConfig \in ConfigValues
    /\ config = Undefined
    /\ thrown = NoError
    /\ input = <<>>
    /\ output = Undefined
    /\ Untraversed

\* The base class stores parseConfig's result in this.config; an exception
\* leaves it unset.
ParseConfig ==
    /\ pc = "parseConfig"
    /\ LET r == parseConfig(rawConfig)
       IN  /\ config' = r.ret
           /\ thrown' = r.thrown
    /\ pc' = "configured"
    /\ UNCHANGED <<rawConfig, input, output, traversalVars>>

NextConfig == ParseConfig

SpecConfig == InitConfig /\ [][NextConfig]_vars

-----------------------------------------------------------------------------
(* Specification SpecMatcher: _getBareString under every normalised        *)
(* allowlist                                                               *)

MatcherConfigs ==
    {parseConfig(Arr(l)).ret : l \in RawLists} \cup {parseConfig(Prim("true")).ret}

InitMatcher ==
    /\ pc = "matcher"
    /\ rawConfig = Undefined
    /\ config \in MatcherConfigs
    /\ thrown = NoError
    /\ input \in Strings
    /\ output = Undefined
    /\ Untraversed

GetBareString ==
    /\ pc = "matcher"
    /\ output' = _getBareString(input)
    /\ pc' = "matched"
    /\ UNCHANGED <<rawConfig, config, thrown, input, traversalVars>>

NextMatcher == GetBareString

SpecMatcher == InitMatcher /\ [][NextMatcher]_vars

-----------------------------------------------------------------------------
(* Specification Spec: the host's depth-first traversal of one template    *)

Loc(line, column) ==
    [t |-> "SourceLocation", v |-> <<>>, start |-> [line |-> line, column |-> column]]

ElementNode(tag) == [t |-> "ElementNode", v |-> <<>>, tag |-> tag]

Part(type, chars, loc) == [type |-> type, chars |-> chars, loc |-> loc]

Present(content, readable, writable) ==
    [exists |-> TRUE, readable |-> readable, writable |-> writable, content |-> content]

Save == <<"S", "a", "v", "e">>

Components == <<"c", "o", "m", "p", "o", "n", "e", "n", "t", "s">>

ButtonHbs == <<"a", "p", "p", "/", "c", "o", "m", "p", "o", "n", "e", "n", "t", "s", "/", "b", "u", "t", "t", "o", "n", ".", "h", "b", "s">>

Padded == <<" ">> \o Save \o <<" ">>

Dash == <<"-", " ">>

\* Bare text, bare text with whitespace around it, allowlisted text.
Texts == {Save, Padded, Dash}

Tags == {"div", "input", "pre"}

\* Void elements: the parser gives them attributes but no children.
VoidTags == {"input"}

\* title is checked on every element, placeholder on input only.
AttrNames == {"title", "placeholder"}

FilePaths == {ButtonHbs}

Files ==
    {NoFile,
     Present(Obj(EmptyMap), TRUE, TRUE),
     Present(Obj(EmptyMap), TRUE, FALSE),
     Present(Obj(EmptyMap), FALSE, TRUE),
     Present(Prim("invalid"), TRUE, TRUE),
     Present(Obj([k \in {Components} |-> Str(<<"x">>)]), TRUE, TRUE),
     Present(Obj([k \in {Components} |->
                     Obj([e \in {Save} |-> Str(<<"x">>)])]), TRUE, TRUE)}

TextLoc == Loc(1, 4)

AttrLoc == Loc(2, 7)

PartLoc == Loc(2, 14)

MustacheLoc == Loc(3, 0)

\* Text parts of an attribute value: bare or allowlisted.
TextParts == {Part("TextNode", chars, PartLoc) : chars \in {Save, Dash}}

MustachePart == Part("MustacheStatement", <<>>, PartLoc)

\* The parser alternates text and mustache parts in a ConcatStatement.
Alternates(parts) ==
    \A i \in 1..(Len(parts) - 1) :
        (parts[i].type = "TextNode") # (parts[i + 1].type = "TextNode")

ConcatParts ==
    {parts \in SeqsUpTo(TextParts \cup {MustachePart}, MaxParts) :
        Len(parts) >= 2 /\ Alternates(parts)}

\* node.path of a mustache statement.
Paths ==
    {Part("StringLiteral", chars, MustacheLoc) : chars \in {Save, Dash}}
    \cup {Part("PathExpression", <<>>, MustacheLoc)}

Init ==
    /\ pc = "traverse"
    /\ rawConfig = Prim("true")
    /\ config = parseConfig(rawConfig).ret
    /\ thrown = NoError
    /\ input = <<>>
    /\ output = Undefined
    /\ mode \in {"report", "fix"}
    /\ filePath \in FilePaths
    /\ file \in Files
    /\ mode = "report" => file = Present(Obj(EmptyMap), TRUE, TRUE)
    /\ _elementStack = <<>>
    /\ _currentElementNode = Undefined
    /\ attrsOpen = FALSE
    /\ visit = NoVisit
    /\ logged = <<>>
    /\ calls = NoCalls
    /\ runs = NoRuns
    /\ strip = NoStrip

\* The host is between the parts of an attribute value.
InAttribute == visit.kind = "AttrNode" /\ visit.idx < Len(visit.parts)

Traversing == pc = "traverse" /\ thrown = NoError /\ ~InAttribute

\* The host can visit a child of the innermost open element.
MayHaveChild ==
    IF _elementStack = <<>> THEN TRUE
    ELSE _elementStack[Len(_elementStack)].tag \notin VoidTags

Begin(v, log) ==
    [kind |-> v.kind, name |-> v.name, loc |-> v.loc, concat |-> v.concat,
     parts |-> v.parts, logged |-> log, file |-> file, thrown |-> thrown,
     inspected |-> 0, fixOrLog |-> <<>>]

\* The callback on part i of v has returned st.
Commit(v, st, i) ==
    /\ visit' = [v EXCEPT !.parts = st.parts, !.idx = i]
    /\ logged' = st.logged
    /\ file' = st.file
    /\ thrown' = st.thrown
    /\ calls' = [inspected |-> st.inspected, fixOrLog |-> st.fixOrLog]

configVars == <<pc, rawConfig, config, input, output, mode, filePath, runs, strip>>

\* ElementNode.enter
EnterElement ==
    \E tag \in Tags :
        /\ Traversing
        /\ MayHaveChild
        /\ Len(_elementStack) < MaxDepth
        /\ _currentElementNode' = ElementNode(tag)
        /\ _elementStack' = Append(_elementStack, ElementNode(tag))
        /\ attrsOpen' = TRUE
        /\ visit' = NoVisit
        /\ logged' = <<>>
        /\ calls' = NoCalls
        /\ UNCHANGED <<configVars, thrown, file>>

\* ElementNode.exit
ExitElement ==
    /\ Traversing
    /\ _elementStack # <<>>
    /\ _elementStack' = SubSeq(_elementStack, 1, Len(_elementStack) - 1)
    /\ attrsOpen' = FALSE
    /\ visit' = NoVisit
    /\ logged' = <<>>
    /\ calls' = NoCalls
    /\ UNCHANGED <<configVars, thrown, file, _currentElementNode>>

\* The host visits a text node that is a child of the innermost open
\* element (or of the template): the TextNode callback runs.
VisitText ==
    \E chars \in Texts, loc \in {TextLoc, Undefined} :
        /\ Traversing
        /\ MayHaveChild
        /\ LET parts == <<Part("TextNode", chars, loc)>>
               v == [kind |-> "TextNode", name |-> "", loc |-> loc, concat |-> FALSE,
                     parts |-> parts, orig |-> parts, idx |-> 0]
           IN  Commit(v, TextNode(Begin(v, <<>>), 1), 1)
        /\ attrsOpen' = FALSE
        /\ UNCHANGED <<configVars, _elementStack, _currentElementNode>>

\* The host visits a mustache statement outside any attribute.
VisitMustache ==
    \E path \in Paths :
        /\ Traversing
        /\ MayHaveChild
        /\ LET v == [kind |-> "MustacheStatement", name |-> "", loc |-> MustacheLoc,
                     concat |-> FALSE, parts |-> <<path>>, orig |-> <<path>>, idx |-> 0]
           IN  Commit(v, MustacheStatement(Begin(v, <<>>), 1), 1)
        /\ attrsOpen' = FALSE
        /\ UNCHANGED <<configVars, _elementStack, _currentElementNode>>

\* The host reaches an attribute of the element it has just entered; the
\* rule has no AttrNode callback.
VisitAttribute ==
    \E name \in AttrNames, concat \in BOOLEAN :
        \E parts \in IF concat THEN ConcatParts
                     ELSE {<<part>> : part \in TextParts \cup {MustachePart}} :
            /\ Traversing
            /\ attrsOpen
            /\ visit' = [kind |-> "AttrNode", name |-> name, loc |-> AttrLoc,
                         concat |-> concat, parts |-> parts, orig |-> parts, idx |-> 0]
            /\ logged' = <<>>
            /\ calls' = NoCalls
            /\ UNCHANGED <<configVars, thrown, file, _elementStack,
                           _currentElementNode, attrsOpen>>

\* The host visits the next node of the attribute's value: the TextNode or
\* the MustacheStatement callback runs.
VisitAttributePart ==
    /\ pc = "traverse"
    /\ thrown = NoError
    /\ InAttribute
    /\ LET i == visit.idx + 1
           st == IF visit.parts[i].type = "TextNode"
                 THEN TextNode(Begin(visit, logged), i)
                 ELSE MustacheStatement(Begin(visit, logged), i)
       IN  Commit(visit, st, i)
    /\ UNCHANGED <<configVars, _elementStack, _currentElementNode, attrsOpen>>

Next ==
    \/ EnterElement
    \/ ExitElement
    \/ VisitText
    \/ VisitMustache
    \/ VisitAttribute
    \/ VisitAttributePart

Spec == Init /\ [][Next]_vars

-----------------------------------------------------------------------------
(* Specification SpecRace: two fix-mode runs of separate processes on      *)
(* templates of app/components, each inside _addStringToTranslations.      *)
(* readFileSync and writeFileSync are separate system calls and nothing    *)
(* locks the catalog, so the other process can run between them.           *)

Runs == {1, 2}

Open == <<"O", "p", "e", "n">>

Undo == <<"U", "n", "d", "o">>

\* The trimmed bare strings the runs fix.
RaceStrings == {Save, Open, Undo}

Existing == <<"E", "x", "i", "s", "t", "i", "n", "g">>

\* Catalogs on disk when the runs start.
RaceFiles ==
    {NoFile,
     Present(Obj(EmptyMap), TRUE, TRUE),
     Present(Obj(EmptyMap), TRUE, FALSE),
     Present(Prim("invalid"), TRUE, TRUE),
     Present(Obj([k \in {Components} |-> Obj(EmptyMap)]), TRUE, TRUE),
     Present(Obj([k \in {Components} |->
                     Obj([e \in {Existing} |-> Str(Existing)])]), TRUE, TRUE)}

\* A run that has not yet reached existsSync.
Run(string) ==
    [pc |-> "start", string |-> string, fileContents |-> NoFile, key |-> Undefined]

InitRace ==
    /\ pc = "race"
    /\ rawConfig = Prim("true")
    /\ config = parseConfig(rawConfig).ret
    /\ thrown = NoError
    /\ input = <<>>
    /\ output = Undefined
    /\ mode = "fix"
    /\ filePath = ButtonHbs
    /\ file \in RaceFiles
    /\ _elementStack = <<>>
    /\ _currentElementNode = Undefined
    /\ attrsOpen = FALSE
    /\ visit = NoVisit
    /\ logged = <<>>
    /\ calls = NoCalls
    /\ runs \in {<<Run(s1), Run(s2)>> : s1 \in RaceStrings, s2 \in RaceStrings}
    /\ runs[1].string # runs[2].string
    /\ strip = NoStrip

\* existsSync and readFileSync of run r: it holds the file as it is now.
ReadFile(r) ==
    /\ pc = "race"
    /\ runs[r].pc = "start"
    /\ runs' = IF file.exists
               THEN [runs EXCEPT ![r].pc = "read", ![r].fileContents = file]
               ELSE [runs EXCEPT ![r].pc = "done"]
    /\ UNCHANGED <<pc, rawConfig, config, thrown, input, output, mode, filePath,
                   file, _elementStack, _currentElementNode, attrsOpen, visit,
                   logged, calls, strip>>

\* Mutant of Written: the catalog is read again when it is written.
Written_Reread(r) == TryAddString(file, runs[r].string)

\* JSON.parse, the reduce, the assignment and writeFileSync of run r, on
\* the contents it read.
Written(r) == TryAddString(runs[r].fileContents, runs[r].string)

\* The rest of the try block of run r, and its return.
WriteFile(r) ==
    /\ pc = "race"
    /\ runs[r].pc = "read"
    /\ LET w == Written(r)
       IN  /\ file' = IF w.threw THEN file ELSE w.file
           /\ runs' = [runs EXCEPT ![r].pc = "done",
                                   ![r].key = IF w.threw THEN Null ELSE w.key]
    /\ UNCHANGED <<pc, rawConfig, config, thrown, input, output, mode, filePath,
                   _elementStack, _currentElementNode, attrsOpen, visit,
                   logged, calls, strip>>

NextRace == \E r \in Runs : ReadFile(r) \/ WriteFile(r)

SpecRace == InitRace /\ [][NextRace]_vars

-----------------------------------------------------------------------------
(* Specification SpecStrip: _getBareString run one loop step at a time,    *)
(* under every allowlist parseConfig returns for a list of StripEntries    *)
(* and under the default one.  The code is synchronous and keeps running   *)
(* until it returns: the steps are weakly fair.                            *)

\* Entries of the configured lists: an empty string, an entry that is part
\* of another, an entry that overlaps itself, an entry with whitespace.
StripEntries == {<<>>, <<"a">>, <<"a", "a">>, <<"a", " ">>}

StripConfigs ==
    {parseConfig(Arr(l)).ret : l \in SeqsUpTo(StripEntries, MaxEntries)}
    \cup {parseConfig(Prim("true")).ret}

\* let allowlist = this.config.allowlist; let string = _string; the for
\* loop is at its first entry.
InitStrip ==
    /\ pc = "strip"
    /\ rawConfig = Undefined
    /\ config \in StripConfigs
    /\ thrown = NoError
    /\ input \in Strings
    /\ output = Undefined
    /\ mode = "report"
    /\ filePath = <<>>
    /\ file = NoFile
    /\ _elementStack = <<>>
    /\ _currentElementNode = Undefined
    /\ attrsOpen = FALSE
    /\ visit = NoVisit
    /\ logged = <<>>
    /\ calls = NoCalls
    /\ runs = NoRuns
    /\ strip = [entry |-> 1, string |-> input]

\* The for loop has an entry left.
AtEntry ==
    /\ pc = "strip"
    /\ Truthy(config.v.allowlist)
    /\ strip.entry <= Len(config.v.allowlist.v)

stripFrame ==
    <<rawConfig, config, thrown, input, mode, filePath, file, _elementStack,
      _currentElementNode, attrsOpen, visit, logged, calls, runs>>

\* The while condition holds: string = string.replace(entry, '').
RemoveOccurrence ==
    /\ AtEntry
    /\ includes(strip.string, config.v.allowlist.v[strip.entry])
    /\ strip' = [strip EXCEPT
                     !.string = replace(@, config.v.allowlist.v[strip.entry])]
    /\ UNCHANGED <<pc, output, stripFrame>>

\* The while condition fails: the for loop goes to the next entry.
NextEntry ==
    /\ AtEntry
    /\ ~includes(strip.string, config.v.allowlist.v[strip.entry])
    /\ strip' = [strip EXCEPT !.entry = @ + 1]
    /\ UNCHANGED <<pc, output, stripFrame>>

\* The for loop is over: return string.trim() !== '' ? _string : null.
ReturnBareString ==
    /\ pc = "strip"
    /\ ~AtEntry
    /\ output' = IF trim(strip.string) # <<>> THEN Str(input) ELSE Null
    /\ pc' = "matched"
    /\ UNCHANGED <<strip, stripFrame>>

NextStrip == RemoveOccurrence \/ NextEntry \/ ReturnBareString

SpecStrip == InitStrip /\ [][NextStrip]_vars /\ WF_vars(NextStrip)

-----------------------------------------------------------------------------
(* Claims about the Allowlist Matcher                                      *)

ConfiguredEntries == Elems(config.v.allowlist.v)

\* s is a concatenation of allowlist entries and whitespace characters.
RECURSIVE ComposedOf(_, _)
ComposedOf(s, entries) ==
    \/ s = <<>>
    \/ \E n \in 1..Len(s) :
          /\ \/ SubSeq(s, 1, n) \in entries
             \/ n = 1 /\ s[1] \in WhiteSpace
          /\ ComposedOf(SubSeq(s, n + 1, Len(s)), entries)

\* s has a non-whitespace character that occurs in no allowlist entry.
HasForeignChar(s, entries) ==
    \E i \in 1..Len(s) :
        /\ s[i] \notin WhiteSpace
        /\ \A e \in entries : s[i] \notin Elems(e)

\* A proper non-empty suffix of one entry is a proper prefix of an entry.
PartialOverlap(entries) ==
    \E x \in entries, y \in entries :
        \E k \in 1..(Len(x) - 1) :
            /\ k < Len(y)
            /\ SubSeq(x, Len(x) - k + 1, Len(x)) = SubSeq(y, 1, k)

-----------------------------------------------------------------------------
(* Claims about the Config Normalizer                                      *)

RecognisedKeys == {"allowlist", "whitelist", "globalAttributes", "elementAttributes"}

\* The configuration values the rule documents as valid.
AcceptedShape(conf) ==
    \/ TypeOf(conf) \in {"boolean", "undefined"}
    \/ IsArray(conf)
    \/ /\ conf.t = "object"
       /\ DOMAIN conf.v \subseteq RecognisedKeys
       /\ \A key \in DOMAIN conf.v :
             IF key = "elementAttributes" THEN conf.v[key].t = "object"
             ELSE IsArray(conf.v[key])

\* C9: parseConfig raises the configuration error, and nothing else, for
\* every configuration value outside the accepted shapes.
C9_MalformedConfigRaises ==
    (pc = "configured" /\ ~AcceptedShape(rawConfig)) => thrown = ConfigurationError

\* C10: the allowlist of every configuration parseConfig returns has no empty
\* entry and is ordered by non-increasing entry length.
C10_AllowlistSanitized ==
    (pc = "configured" /\ thrown = NoError /\ config.t = "object") =>
        LET allowlist == config.v.allowlist.v
        IN  /\ \A i \in 1..Len(allowlist) : allowlist[i] # <<>>
            /\ \A i \in 1..(Len(allowlist) - 1) :
                   Len(allowlist[i]) >= Len(allowlist[i + 1])

-----------------------------------------------------------------------------
(* Claims about the traversal, the reporter and the fixer                  *)

\* No currently open element has an ignored tag.
NoIgnoredOpen ==
    \A n \in 1..Len(_elementStack) : _elementStack[n].tag \notin IGNORED_ELEMENTS

Fails(chars) == _getBareString(chars) # Null

\* The tag of the element that owns the attribute being visited.
OwnerTag == _elementStack[Len(_elementStack)].tag

\* The attribute name is one the configuration checks on the owner's tag.
Checked(name, tag) ==
    \/ name \in Elems(config.v.globalAttributes.v)
    \/ /\ tag \in DOMAIN config.v.elementAttributes.v
       /\ name \in Elems(config.v.elementAttributes.v[tag])

\* C1: in report mode a located text node outside attributes and outside
\* ignored elements yields exactly one diagnostic (plain message, fixable,
\* its own line and column, its raw characters) when it fails the allowlist
\* test, and none when it passes.
C1_TextNodeReported ==
    (/\ mode = "report"
     /\ visit.kind = "TextNode"
     /\ Truthy(visit.orig[1].loc)
     /\ NoIgnoredOpen) =>
        LET node == visit.orig[1]
        IN  IF Fails(node.chars)
            THEN logged = <<[message |-> <<"Non-translated string used">>,
                             isFixable |-> TRUE,
                             line |-> node.loc.start.line,
                             column |-> node.loc.start.column,
                             source |-> node.chars]>>
            ELSE logged = <<>>

C1_Witness ==
    /\ mode = "report"
    /\ visit.kind = "TextNode"
    /\ _elementStack # <<>>
    /\ NoIgnoredOpen
    /\ visit.orig[1].chars = Padded
    /\ Len(logged) = 1
    /\ logged[1].source = Padded
    /\ logged[1].line = 1
    /\ logged[1].column = 4

\* The callback that just ran was handed a candidate: a located text child,
\* a string literal in the path of a top-level mustache, or a located text
\* part of a checked attribute.
CandidateVisited ==
    \/ visit.kind = "TextNode" /\ Truthy(visit.orig[1].loc)
    \/ visit.kind = "MustacheStatement" /\ visit.orig[1].type = "StringLiteral"
    \/ /\ visit.kind = "AttrNode"
       /\ visit.idx >= 1
       /\ visit.orig[visit.idx].type = "TextNode"
       /\ Truthy(visit.orig[visit.idx].loc)
       /\ Checked(visit.name, OwnerTag)

\* C2: the allowlist test is run only while no open element is ignored, and
\* for a candidate it is run exactly when no open element is ignored, also
\* after ignored elements have been exited.
C2_InspectedOnlyOutsideIgnored ==
    /\ calls.inspected > 0 => NoIgnoredOpen
    /\ CandidateVisited => (calls.inspected > 0 <=> NoIgnoredOpen)

\* An ignored element was exited (it is still the tracked current element),
\* an element is open, and the candidate was inspected.
C2_Witness ==
    /\ Truthy(_currentElementNode)
    /\ _currentElementNode.tag \in IGNORED_ELEMENTS
    /\ _elementStack # <<>>
    /\ NoIgnoredOpen
    /\ CandidateVisited
    /\ calls.inspected > 0

\* C3: text inside an attribute that is neither a global attribute nor
\* listed for the owner's tag is not inspected: no diagnostic, no fix.
C3_UncheckedAttributeSkipped ==
    (visit.kind = "AttrNode" /\ ~Checked(visit.name, OwnerTag)) =>
        /\ calls.inspected = 0
        /\ calls.fixOrLog = <<>>
        /\ logged = <<>>
        /\ visit.parts = visit.orig

\* placeholder is listed for input only: on a div its bare text is skipped.
C3_Witness ==
    /\ visit.kind = "AttrNode"
    /\ visit.name = "placeholder"
    /\ OwnerTag = "div"
    /\ NoIgnoredOpen
    /\ visit.idx >= 1
    /\ visit.orig[visit.idx].type = "TextNode"
    /\ Fails(visit.orig[visit.idx].chars)
    /\ logged = <<>>

\* C4: in fix mode every failing candidate whose node was not rewritten is
\* handed to the diagnostic sink.
C4_UnfixedIsReported ==
    mode = "fix" =>
        \A k \in 1..Len(calls.fixOrLog) :
            ~calls.fixOrLog[k].rewritten =>
                \E d \in 1..Len(logged) : logged[d].source = calls.fixOrLog[k].source

\* A located bare text child outside ignored elements is visited by this step.
FixesText(T) ==
    /\ mode = "fix"
    /\ filePath = ButtonHbs
    /\ file = Present(Obj(EmptyMap), TRUE, TRUE)
    /\ NoIgnoredOpen
    /\ visit'.kind = "TextNode"
    /\ Truthy(visit'.orig[1].loc)
    /\ Fails(visit'.orig[1].chars)
    /\ T = trim(visit'.orig[1].chars)

Button == <<"b", "u", "t", "t", "o", "n">>

Nested(segments, T) ==
    IF Len(segments) = 1 THEN Obj([k \in {segments[1]} |-> Obj([l \in {T} |-> Str(T)])])
    ELSE Obj([k \in {segments[1]} |->
                 Obj([l \in {segments[2]} |-> Obj([m \in {T} |-> Str(T)])])])

\* C5 as stated: with the catalog {} and the file app/components/button.hbs
\* the node becomes the helper call for components.button.<T> and the
\* catalog {"components": {"button": {T: T}}}.
C5_Original ==
    [][\A T \in {trim(chars) : chars \in Texts} :
          FixesText(T) =>
              /\ visit'.parts[1].chars =
                     Helper(Components \o <<".">> \o Button \o <<".">> \o T)
              /\ file'.content = Nested(<<Components, Button>>, T)]_vars

\* C5 amended: the key is components.<T> and the catalog becomes
\* {"components": {T: T}}, T being the trimmed text (the file name is dropped
\* from the key path).
C5_FixWritesKey ==
    [][\A T \in {trim(chars) : chars \in Texts} :
          FixesText(T) =>
              /\ visit'.parts[1].chars = Helper(Components \o <<".">> \o T)
              /\ file'.content = Nested(<<Components>>, T)
              /\ file'.exists /\ file'.readable /\ file'.writable]_vars

C5_Witness ==
    /\ mode = "fix"
    /\ filePath = ButtonHbs
    /\ visit.kind = "TextNode"
    /\ visit.orig[1].chars = Save
    /\ visit.parts[1].chars = Helper(Components \o <<".">> \o Save)
    /\ file.content = Nested(<<Components>>, Save)

\* The catalog is missing, cannot be read, or is not JSON.
CatalogUnusable(f) == ~f.exists \/ ~f.readable \/ f.content = Prim("invalid")

\* C6: with an unusable catalog every fix attempt gets no key, leaves the
\* catalog and the nodes as they were, and lets no exception escape.
C6_UnusableCatalogSkipsFix ==
    [][(mode = "fix" /\ CatalogUnusable(file)) =>
          /\ file' = file
          /\ visit'.parts = visit'.orig
          /\ thrown' = NoError
          /\ \A k \in 1..Len(calls'.fixOrLog) :
                 /\ ~Truthy(calls'.fixOrLog[k].key)
                 /\ ~calls'.fixOrLog[k].rewritten]_vars

\* A fix was attempted on a bare text node with a catalog that is not JSON.
C6_Witness ==
    /\ mode = "fix"
    /\ file.exists
    /\ file.content = Prim("invalid")
    /\ visit.kind = "TextNode"
    /\ Len(calls.fixOrLog) = 1
    /\ calls.fixOrLog[1].type = "TextNode"
    /\ calls.fixOrLog[1].key = Null
    /\ visit.parts = visit.orig
    /\ thrown = NoError

\* C8: in report mode a checked attribute with a concatenated value yields,
\* over the visit of the whole attribute, one diagnostic per literal part
\* that fails the allowlist test.
C8_OnePerFailingLiteral ==
    (/\ mode = "report"
     /\ visit.kind = "AttrNode"
     /\ visit.concat
     /\ visit.idx = Len(visit.parts)
     /\ Checked(visit.name, OwnerTag)
     /\ NoIgnoredOpen) =>
        Len(logged) =
            Cardinality({j \in 1..Len(visit.orig) :
                            /\ visit.orig[j].type = "TextNode"
                            /\ Fails(visit.orig[j].chars)})

-----------------------------------------------------------------------------
(* Claims about the Translation Catalog Writer                             *)

\* The value the catalog holds at a path of segments, undefined if none.
RECURSIVE Lookup(_, _)
Lookup(value, segments) ==
    IF segments = <<>> THEN value
    ELSE IF IsObject(value) /\ segments[1] \in DOMAIN value.v
    THEN Lookup(value.v[segments[1]], SubSeq(segments, 2, Len(segments)))
    ELSE Undefined

\* The catalog on disk maps the key of string to string.
Resolves(f, string) ==
    f.exists /\ Lookup(f.content, KeyPathSegments \o <<string>>) = Str(string)

OtherRun(r) == 3 - r

\* Both runs have returned a key.
BothFixed == \A r \in Runs : runs[r].pc = "done" /\ Truthy(runs[r].key)

\* Run r read the catalog before the other run wrote its key.
ReadBeforeOtherWrote(r) == ~Resolves(runs[r].fileContents, runs[OtherRun(r)].string)

\* C11: the read of the locale file and the write-back are two steps with
\* no lock between them: when two fix-mode runs that insert different keys
\* have both returned, the file lacks one of the two keys exactly when both
\* runs read before either wrote, and that final state is reachable
\* (C11_Witness).
C11_InterleavingLosesKey ==
    (pc = "race" /\ BothFixed) =>
        ((\E r \in Runs : ~Resolves(file, runs[r].string))
            <=> (\A r \in Runs : ReadBeforeOtherWrote(r)))

\* Both runs returned their key and the final file lacks one of the keys.
C11_Witness ==
    /\ pc = "race"
    /\ BothFixed
    /\ runs[1].key # runs[2].key
    /\ \E r \in Runs : ~Resolves(file, runs[r].string) /\ Resolves(file, runs[OtherRun(r)].string)

\* The entries of a catalog: the paths that lead to a value that is no
\* nested mapping, each with its value.
RECURSIVE CatalogEntries(_, _)
CatalogEntries(value, prefix) ==
    IF IsObject(value)
    THEN UNION {CatalogEntries(value.v[k], Append(prefix, k)) : k \in DOMAIN value.v}
    ELSE {[path |-> prefix, value |-> value]}

\* The keys the last callback obtained from the Catalog Writer.
ReturnedKeys(c) ==
    {c.fixOrLog[n].source : n \in {m \in 1..Len(c.fixOrLog) : c.fixOrLog[m].rewritten}}

\* C12: when fixes run sequentially, a fix changes the catalog only by
\* inserting the derived key path if it is absent: every entry present
\* before a callback is present with the same value after it, the value
\* already stored at the derived key included, and every key the callback
\* obtained resolves to its string.
C12_FixOnlyInserts ==
    [][(pc = "traverse" /\ mode = "fix") =>
          /\ \A e \in CatalogEntries(file.content, <<>>) :
                 Lookup(file'.content, e.path) = e.value
          /\ \A source \in ReturnedKeys(calls') : Resolves(file', trim(source))]_vars

-----------------------------------------------------------------------------
(* Claims about the Fixer and the Element Context Tracker                  *)

\* The translation-helper invocation for the trimmed text chars.
HelperFor(chars) == Helper(join(KeyPathSegments \o <<trim(chars)>>, "."))

\* C13: in fix mode the node whose content is replaced by the
\* translation-helper invocation is the text node whose characters failed
\* the allowlist test, and the key in the invocation is the key of that
\* node's own trimmed text, also when the node is one of several literal
\* parts of a concatenated attribute value.
C13_RewrittenNodeIsFailingNode ==
    (pc = "traverse" /\ mode = "fix") =>
        \A n \in 1..Len(calls.fixOrLog) :
            calls.fixOrLog[n].rewritten =>
                /\ calls.fixOrLog[n].node = visit.idx
                /\ calls.fixOrLog[n].source = visit.orig[visit.idx].chars
                /\ visit.parts[visit.idx].chars = HelperFor(visit.orig[visit.idx].chars)

\* C14: after any sequence of element enter and exit events of a
\* well-nested traversal, whenever at least one element is open the tracked
\* current element is the innermost open element, the top of the ancestry
\* stack.
C14_CurrentIsInnermost ==
    (pc = "traverse" /\ _elementStack # <<>>) =>
        _currentElementNode = _elementStack[Len(_elementStack)]

\* The host has just run the MustacheStatement callback on a mustache that
\* is a part of an attribute's value.
MustacheInAttribute ==
    /\ visit.kind = "AttrNode"
    /\ visit.idx >= 1
    /\ visit.orig[visit.idx].type = "MustacheStatement"

-----------------------------------------------------------------------------
(* Claims about the allowlist of a configuration                           *)

\* The list the configuration object has under key, empty if it has none.
ListAt(conf, key) == IF key \in DOMAIN conf.v THEN conf.v[key].v ELSE <<>>

\* parseConfig returned a configuration for a configuration object.
ObjectConfigured ==
    /\ pc = "configured"
    /\ rawConfig.t = "object"
    /\ thrown = NoError

OfLength(list, n) == SelectSeq(list, LAMBDA option : Len(option) = n)

\* parseConfig returned a configuration for an array of strings.
ArrayConfigured ==
    /\ pc = "configured"
    /\ IsArray(rawConfig)
    /\ thrown = NoError

\* C17: sanitization drops every empty-string entry, orders the remaining
\* entries by descending length, keeps the original relative order of
\* entries of equal length, and is idempotent.
C17_SanitizeStableIdempotent ==
    ArrayConfigured =>
        LET given == rawConfig.v
            sanitized == config.v.allowlist.v
        IN  /\ OfLength(sanitized, 0) = <<>>
            /\ \A i \in 1..(Len(sanitized) - 1) :
                   Len(sanitized[i]) >= Len(sanitized[i + 1])
            /\ \A n \in 1..MaxEntryLen : OfLength(sanitized, n) = OfLength(given, n)
            /\ sanitizeConfigArray(sanitized) = sanitized

\* A list whose longer entry came last was sanitized: the entries changed
\* places, and sanitizing the result again changes nothing.
C17_Witness ==
    /\ ArrayConfigured
    /\ rawConfig.v = << <<" ">>, <<"a", " ">> >>
    /\ config.v.allowlist.v = << <<"a", " ">>, <<" ">> >>
    /\ sanitizeConfigArray(config.v.allowlist.v) = config.v.allowlist.v

-----------------------------------------------------------------------------
(* Claims about the strip loop of the Allowlist Matcher                    *)

\* C18: the strip loop terminates for every input string and every
\* allowlist parseConfig returns: no entry is the empty string, so each
\* removal strictly shortens the working copy, the loop over one entry
\* ends, and the matcher returns after the last entry.
C18_StripTerminates ==
    /\ [](pc = "strip" => \A i \in 1..Len(config.v.allowlist.v) :
                              config.v.allowlist.v[i] # <<>>)
    /\ [][strip'.string # strip.string
             => Len(strip'.string) < Len(strip.string)]_vars
    /\ [][strip'.entry # strip.entry => strip'.entry = strip.entry + 1]_vars
    /\ <>(pc = "matched")

\* The matcher returned after it removed two occurrences of an entry of a
\* configured allowlist.
C18_Witness ==
    /\ pc = "matched"
    /\ Len(config.v.allowlist.v) = 2
    /\ Len(input) = MaxStrLen
    /\ Len(strip.string) + 2 <= Len(input)
    /\ strip.entry = 3
    /\ output = _getBareString(input)

====
